---- MODULE Spec2Model ----
(***************************************************************************)
(* Model of src/main.py: the Alpaca bridge.  One background asyncio task   *)
(* (sip_stream_loop) keeps the dict `latest` warm from the vendor          *)
(* websocket; HTTP handlers (/, /health, /latest, /bars) run on the same   *)
(* event loop.  A state of the model is a point where every coroutine is   *)
(* suspended at an await (or has not started / has finished); an action is *)
(* the code a coroutine runs between two such points.                      *)
(*                                                                         *)
(* JSON values are modelled as strings: None is the Python None / JSON     *)
(* null (dict.get of an absent key gives the same value), "#42" is a       *)
(* truthy JSON number, every other string is a JSON string.                *)
(***************************************************************************)
EXTENDS Naturals, Sequences, FiniteSets, TLC

\* ------------------------------------------------------------------ bounds
MaxBatch == 2       \* longest list of messages in one websocket frame
MaxClock == 1       \* the wall clock takes the values 0..MaxClock

\* ------------------------------------------------------- program constants
None == "None"

\* SIP_SYMBOLS defaults to "SPY"; SIP_SYMBOL_LIST is its upper-cased split
SIP_SYMBOL_LIST == <<"SPY">>

symbols == IF SIP_SYMBOL_LIST # <<>> THEN SIP_SYMBOL_LIST ELSE <<"SPY">>

SymbolSet == {symbols[i] : i \in 1..Len(symbols)}

BackoffSeconds == 3

\* ------------------------------------------------------------ JSON helpers
\* str.upper() on the strings the model uses
Upper(s) ==
    CASE s = "spy" -> "SPY"
      [] s = "qqq" -> "QQQ"
      [] s = "es"  -> "ES"
      [] OTHER     -> s

\* Python truthiness of a JSON value
Truthy(v) == v \notin {None, ""}

\* isinstance(v, str)
IsStr(v) == v \notin {None, "#42"}

\* dict.get(key): never raises, None for an absent key
MsgGet_Strict(msg, key) == [raised |-> msg[key] = None, val |-> msg[key]]

MsgGet(msg, key) == [raised |-> FALSE, val |-> msg[key]]

\* d[k] = v on a Python dict
Put(d, k, v) == [x \in (DOMAIN d) \cup {k} |-> IF x = k THEN v ELSE d[x]]

EmptyDict == [x \in {} |-> None]

\* dict.setdefault(sym, {})
SetDefault_Reset(store, sym) == Put(store, sym, EmptyDict)

SetDefault(store, sym) ==
    IF sym \in DOMAIN store THEN store ELSE Put(store, sym, EmptyDict)

\* datetime.now(timezone.utc).isoformat()
_now_iso(clk) == IF clk = 0 THEN "T0" ELSE IF clk = 1 THEN "T1" ELSE "T2"

\* ------------------------------------------------------- inbound messages
\* One element of a decoded frame.  obj = FALSE is a JSON value that is not
\* an object (a number, a string, null); the other fields are its keys.
Elem(o, T, S, p, s, t, bp, ap, m) ==
    [obj |-> o, T |-> T, S |-> S, p |-> p, s |-> s, t |-> t,
     bp |-> bp, ap |-> ap, msg |-> m]

TradeMsg(S, p, s, t) == Elem(TRUE, "t", S, p, s, t, None, None, None)
QuoteMsg(S, bp, ap, t) == Elem(TRUE, "q", S, None, None, t, bp, ap, None)

Elems ==
    { TradeMsg("SPY", "680.12", "100", "t1"),
      TradeMsg("spy", "681.00", "200", None),
      TradeMsg("QQQ", "680.12", "100", "t1"),
      QuoteMsg("SPY", "680.10", "680.14", "t2"),
      Elem(TRUE, "b", "SPY", None, None, "t1", None, None, None),
      TradeMsg(None, "680.12", "100", "t1"),
      TradeMsg("#42", "680.12", "100", "t1"),
      Elem(FALSE, None, None, None, None, None, None, None, None) }

RECURSIVE SeqsUpTo(_, _)
SeqsUpTo(S, n) ==
    IF n = 0 THEN {<<>>}
    ELSE LET shorter == SeqsUpTo(S, n - 1)
         IN shorter \cup {Append(q, e) : q \in shorter, e \in S}

\* A raw websocket frame: text that json.loads rejects, a JSON value that
\* is not a list, or a list of elements.
Frame(v, l, es) == [valid |-> v, isList |-> l, elems |-> es]

InvalidJson == Frame(FALSE, FALSE, <<>>)
NotAList    == Frame(TRUE, FALSE, <<>>)

DataFrames == {Frame(TRUE, TRUE, es) : es \in SeqsUpTo(Elems, MaxBatch)}

Frames == {InvalidJson, NotAList} \cup DataFrames

\* The vendor's answers to the auth message
AuthOK  == Frame(TRUE, TRUE,
    <<Elem(TRUE, "success", None, None, None, None, None, None, "authenticated")>>)
AuthErr == Frame(TRUE, TRUE,
    <<Elem(TRUE, "error", None, None, None, None, None, None, "auth failed")>>)
SubAck  == Frame(TRUE, TRUE,
    <<Elem(TRUE, "subscription", None, None, None, None, None, None, None)>>)
EarlyTrade == Frame(TRUE, TRUE, <<TradeMsg("SPY", "680.12", "100", "t1")>>)

HandshakeFrames == {AuthOK, AuthErr, SubAck, EarlyTrade, InvalidJson}

\* --------------------------------------- the update block (lines 105-125)
\* The assignments latest[sym][field] = msg.get(key), in program order.
\* A raise while evaluating a right-hand side leaves the earlier writes.
RECURSIVE WriteFields(_, _, _, _, _)
WriteFields(store, sym, msg, writes, now) ==
    IF writes = <<>> THEN
        [store |-> Put(store, sym, Put(store[sym], "updated_at", now)),
         raised |-> FALSE]
    ELSE LET w == Head(writes)
             g == MsgGet(msg, w[2])
         IN IF g.raised THEN [store |-> store, raised |-> TRUE]
            ELSE WriteFields(Put(store, sym, Put(store[sym], w[1], g.val)),
                             sym, msg, Tail(writes), now)

TradeWrites_NoTime == << <<"last_trade_price", "p">> >>

TradeWrites == << <<"last_trade_price", "p">>, <<"last_trade_time", "t">> >>

QuoteWrites == << <<"bid_price", "bp">>, <<"ask_price", "ap">>,
                  <<"quote_time", "t">> >>

\* The body of `for msg in data` for one element.
ProcessMsg(store, msg, now) ==
    IF ~msg.obj THEN [store |-> store, raised |-> TRUE]
    ELSE LET t == MsgGet(msg, "T").val
             S == MsgGet(msg, "S").val
         IN IF Truthy(S) /\ ~IsStr(S) THEN [store |-> store, raised |-> TRUE]
            ELSE LET sym == IF Truthy(S) THEN Upper(S) ELSE ""
                 IN IF sym = "" THEN [store |-> store, raised |-> FALSE]
                    ELSE IF t = "t" THEN
                        WriteFields(SetDefault(store, sym), sym, msg,
                                    TradeWrites, now)
                    ELSE IF t = "q" THEN
                        WriteFields(SetDefault(store, sym), sym, msg,
                                    QuoteWrites, now)
                    ELSE [store |-> store, raised |-> FALSE]

RECURSIVE ProcessBatch_SkipBad(_, _, _)
ProcessBatch_SkipBad(store, data, now) ==
    IF data = <<>> THEN [store |-> store, raised |-> FALSE]
    ELSE LET r == ProcessMsg(store, Head(data), now)
             rest == ProcessBatch_SkipBad(r.store, Tail(data), now)
         IN [store |-> rest.store, raised |-> r.raised \/ rest.raised]

\* `for msg in data`: elements in order, stopping at the first raise.
RECURSIVE ProcessBatch(_, _, _)
ProcessBatch(store, data, now) ==
    IF data = <<>> THEN [store |-> store, raised |-> FALSE]
    ELSE LET r == ProcessMsg(store, Head(data), now)
         IN IF r.raised THEN r ELSE ProcessBatch(r.store, Tail(data), now)

\* `async with latest_lock`: __aexit__ releases on every exit of the block.
AsyncWithExit_NoFinally(raised) == IF raised THEN "held" ELSE "free"

AsyncWithExit(raised) == "free"

\* The inner `except Exception: pass`: which raises it swallows.
InnerExcept_Narrow(kind) == kind = "json"

InnerExcept(kind) == kind \in {"json", "attr"}

\* One iteration of `async for raw in ws` (lines 100-129).
\* kind: "" no raise, "json" json.loads raised, "attr" an element raised.
HandleRaw(store, lock, raw, now) ==
    IF ~raw.valid THEN
        [store |-> store, lock |-> lock, kind |-> "json"]
    ELSE IF ~raw.isList THEN
        [store |-> store, lock |-> lock, kind |-> ""]
    ELSE LET r == ProcessBatch(store, raw.elems, now)
         IN [store |-> r.store, lock |-> AsyncWithExit(r.raised),
             kind |-> IF r.raised THEN "attr" ELSE ""]

\* ------------------------------------------------------------------- state
VARIABLES
    ALPACA_KEY,     \* None or the configured key
    ALPACA_SECRET,  \* None or the configured secret
    sip_task,       \* "none", or where sip_stream_loop is suspended
    latest,         \* dict symbol -> dict field -> value
    latest_lock,    \* "free" or "held"
    clock,          \* wall clock read by _now_iso
    auth_msg,       \* what ws.recv() returned for the auth message
    sub_sent,       \* the subscribe message was sent on this connection
    last_event,     \* what the loop did in its last step
    last_trade,     \* symbol -> the last trade message the loop processed
    tasks,          \* how many sip_stream_loop tasks were created
    ws_open,        \* how many websocket connections are open
    midway,         \* stores the loop was suspended at inside the last batch
    req             \* the HTTP request in flight, or the last one served

vars == <<ALPACA_KEY, ALPACA_SECRET, sip_task, latest, latest_lock, clock,
          auth_msg, sub_sent, last_event, last_trade, tasks, ws_open,
          midway, req>>

loopVars == <<sip_task, latest, latest_lock, auth_msg, sub_sent, last_event,
              last_trade, tasks, ws_open, midway>>

have_keys == ALPACA_KEY # None /\ ALPACA_SECRET # None

IdleReq ==
    [ep |-> "none", pc |-> "idle", sym |-> "", out |-> "None",
     status |-> 0, null |-> TRUE, tick |-> EmptyDict, body |-> "",
     calls |-> 0, url |-> "", have_keys |-> FALSE, query |-> "",
     mid |-> FALSE, vkind |-> "", vstatus |-> 0, vtext |-> ""]

Init ==
    /\ ALPACA_KEY \in {None, "key"}
    /\ ALPACA_SECRET \in {None, "secret"}
    /\ sip_task = "none"
    /\ latest = EmptyDict
    /\ latest_lock = "free"
    /\ clock = 0
    /\ auth_msg = "none"
    /\ sub_sent = FALSE
    /\ last_event = "none"
    /\ last_trade = EmptyDict
    /\ tasks = 0
    /\ ws_open = 0
    /\ midway = {}
    /\ req = IdleReq

\* The wall clock advances.
Tick ==
    /\ clock < MaxClock
    /\ clock' = clock + 1
    /\ UNCHANGED <<ALPACA_KEY, ALPACA_SECRET, loopVars, req>>

\* ------------------------------------------------ the background task
_startup_Twice ==
    /\ sip_task = "none"
    /\ sip_task' = "start"
    /\ tasks' = tasks + 2
    /\ last_event' = "created"
    /\ UNCHANGED <<ALPACA_KEY, ALPACA_SECRET, latest, latest_lock, clock,
                   auth_msg, sub_sent, last_trade, req, ws_open, midway>>

\* _startup: asyncio.create_task(sip_stream_loop()).  The framework runs
\* the startup handler once, before the first request is served.
_startup ==
    /\ sip_task = "none"
    /\ sip_task' = "start"
    /\ tasks' = tasks + 1
    /\ last_event' = "created"
    /\ UNCHANGED <<ALPACA_KEY, ALPACA_SECRET, latest, latest_lock, clock,
                   auth_msg, sub_sent, last_trade, req, ws_open, midway>>

LoopStart_NoCheck ==
    /\ sip_task = "start"
    /\ sip_task' = "connect"
    /\ last_event' = "connecting"
    /\ UNCHANGED <<ALPACA_KEY, ALPACA_SECRET, latest, latest_lock, clock,
                   auth_msg, sub_sent, last_trade, req, tasks, ws_open,
                   midway>>

\* The task runs up to its first await: the credentials check, then
\* websockets.connect.
LoopStart ==
    /\ sip_task = "start"
    /\ sip_task' = IF ~have_keys THEN "returned" ELSE "connect"
    /\ last_event' = IF ~have_keys THEN "no_keys" ELSE "connecting"
    /\ UNCHANGED <<ALPACA_KEY, ALPACA_SECRET, latest, latest_lock, clock,
                   auth_msg, sub_sent, last_trade, req, tasks, ws_open,
                   midway>>

\* An exception inside the outer try: the handler prints and sleeps.
OuterExcept == "sleep"

\* Where the task is inside `async with websockets.connect(...) as ws`
InWith == {"send_auth", "recv_auth", "send_sub", "recv_sub", "next"}

\* Leaving the `async with` block, by any exit: __aexit__ closes ws.
WsExit_Leak(n) == n

WsExit(n) == n - 1

ConnectOK_Clear ==
    /\ sip_task = "connect"
    /\ sip_task' = "send_auth"
    /\ ws_open' = ws_open + 1
    /\ latest' = EmptyDict
    /\ auth_msg' = "none"
    /\ sub_sent' = FALSE
    /\ last_event' = "connected"
    /\ UNCHANGED <<ALPACA_KEY, ALPACA_SECRET, latest_lock, clock,
                   last_trade, req, tasks, midway>>

\* websockets.connect succeeded: the loop goes on to ws.send(auth).
ConnectOK ==
    /\ sip_task = "connect"
    /\ sip_task' = "send_auth"
    /\ ws_open' = ws_open + 1
    /\ auth_msg' = "none"
    /\ sub_sent' = FALSE
    /\ last_event' = "connected"
    /\ UNCHANGED <<ALPACA_KEY, ALPACA_SECRET, latest, latest_lock, clock,
                   last_trade, req, tasks, midway>>

\* websockets.connect raised (refused, reset, handshake timeout).
ConnectFail ==
    /\ sip_task = "connect"
    /\ sip_task' = OuterExcept
    /\ last_event' = "connect_failed"
    /\ UNCHANGED <<ALPACA_KEY, ALPACA_SECRET, latest, latest_lock, clock,
                   auth_msg, sub_sent, last_trade, req, tasks, ws_open,
                   midway>>

\* ws.send of the auth message completed; the loop awaits ws.recv().
SendAuth ==
    /\ sip_task = "send_auth"
    /\ sip_task' = "recv_auth"
    /\ last_event' = "auth_sent"
    /\ UNCHANGED <<ALPACA_KEY, ALPACA_SECRET, latest, latest_lock, clock,
                   auth_msg, sub_sent, last_trade, req, tasks, ws_open,
                   midway>>

\* ws.send raised: the connection was lost.
SendFail ==
    /\ sip_task \in {"send_auth", "send_sub"}
    /\ sip_task' = OuterExcept
    /\ ws_open' = WsExit(ws_open)
    /\ last_event' = "send_failed"
    /\ UNCHANGED <<ALPACA_KEY, ALPACA_SECRET, latest, latest_lock, clock,
                   auth_msg, sub_sent, last_trade, req, tasks, midway>>

\* How the vendor's answer to the auth message reads
AuthClass(raw) ==
    IF raw = AuthOK THEN "ack" ELSE IF raw = AuthErr THEN "reject" ELSE "other"

\* auth_msg = await ws.recv(); print; then ws.send(subscribe) is awaited.
RecvAuth(raw) ==
    /\ sip_task = "recv_auth"
    /\ auth_msg' = AuthClass(raw)
    /\ sip_task' = "send_sub"
    /\ last_event' = "auth_reply"
    /\ UNCHANGED <<ALPACA_KEY, ALPACA_SECRET, latest, latest_lock, clock,
                   sub_sent, last_trade, req, tasks, ws_open, midway>>

\* ws.send of the subscribe message completed; the loop awaits ws.recv().
SendSub ==
    /\ sip_task = "send_sub"
    /\ sub_sent' = TRUE
    /\ sip_task' = "recv_sub"
    /\ last_event' = "sub_sent"
    /\ UNCHANGED <<ALPACA_KEY, ALPACA_SECRET, latest, latest_lock, clock,
                   auth_msg, last_trade, req, tasks, ws_open, midway>>

RecvSub_Applies(raw) ==
    /\ sip_task = "recv_sub"
    /\ sip_task' = "next"
    /\ latest' = HandleRaw(latest, latest_lock, raw, _now_iso(clock)).store
    /\ last_event' = "sub_reply"
    /\ UNCHANGED <<ALPACA_KEY, ALPACA_SECRET, latest_lock, clock,
                   auth_msg, sub_sent, last_trade, req, tasks, ws_open,
                   midway>>

\* sub_msg = await ws.recv(); print; the loop enters `async for raw in ws`.
RecvSub(raw) ==
    /\ sip_task = "recv_sub"
    /\ sip_task' = "next"
    /\ last_event' = "sub_reply"
    /\ UNCHANGED <<ALPACA_KEY, ALPACA_SECRET, latest, latest_lock, clock,
                   auth_msg, sub_sent, last_trade, req, tasks, ws_open,
                   midway>>

\* ws.recv() raised ConnectionClosed (any close code, or a lost transport).
RecvClosed ==
    /\ sip_task \in {"recv_auth", "recv_sub"}
    /\ sip_task' = OuterExcept
    /\ ws_open' = WsExit(ws_open)
    /\ last_event' = "recv_closed"
    /\ UNCHANGED <<ALPACA_KEY, ALPACA_SECRET, latest, latest_lock, clock,
                   auth_msg, sub_sent, last_trade, req, tasks, midway>>

\* What kind of frame the loop has just read (for the record in last_event)
FrameClass(raw) ==
    IF ~raw.valid THEN "invalid_json"
    ELSE IF ~raw.isList THEN "not_list"
    ELSE LET es == raw.elems
             I == 1..Len(es)
         IN IF es = <<>> THEN "empty"
            ELSE IF \E i \in I : ~es[i].obj THEN "non_object"
            ELSE IF \E i \in I : es[i].S = "#42" THEN "bad_symbol"
            ELSE IF \E i \in I : es[i].S \in {None, ""} THEN "no_symbol"
            ELSE IF \E i \in I : es[i].T \notin {"t", "q"} THEN "unknown_type"
            ELSE IF Len(es) >= 2 THEN "batch"
            ELSE "data"

MalformedClasses ==
    {"invalid_json", "not_list", "non_object", "bad_symbol", "no_symbol",
     "unknown_type"}

\* The elements of a frame that the loop gets to: those before the first
\* element that is not an object or whose symbol is not a string.
RECURSIVE Processed(_)
Processed(es) ==
    IF es = <<>> THEN <<>>
    ELSE IF ~Head(es).obj \/ Head(es).S = "#42" THEN <<>>
    ELSE <<Head(es)>> \o Processed(Tail(es))

\* The last trade message per symbol among prev and then es.
RECURSIVE NoteTrades(_, _)
NoteTrades(prev, es) ==
    IF es = <<>> THEN prev
    ELSE LET e == Head(es)
         IN IF e.T = "t" /\ e.S \notin {None, ""}
            THEN NoteTrades(Put(prev, Upper(e.S),
                                [p |-> e.p, s |-> e.s, t |-> e.t]), Tail(es))
            ELSE NoteTrades(prev, Tail(es))

\* Does the body of `async with latest_lock` await anything?  It does not.
AwaitsInBlock_Yields == TRUE

AwaitsInBlock == FALSE

\* The stores at which the loop is suspended inside the update block while
\* it works through data: one after each message but the last, if the
\* block awaits at all.
Midway(store, data, now) ==
    IF ~AwaitsInBlock THEN {}
    ELSE {ProcessBatch(store, SubSeq(data, 1, i), now).store :
             i \in 1..(Len(data) - 1)}

\* `async for raw in ws` yields a frame and the loop body runs on it.
StreamFrame(raw) ==
    /\ sip_task = "next"
    /\ (raw.valid /\ raw.isList) => latest_lock = "free"
    /\ \E h \in {HandleRaw(latest, latest_lock, raw, _now_iso(clock))} :
          /\ latest' = h.store
          /\ latest_lock' = h.lock
          /\ sip_task' = IF h.kind # "" /\ ~InnerExcept(h.kind)
                         THEN OuterExcept ELSE "next"
          /\ ws_open' = IF h.kind # "" /\ ~InnerExcept(h.kind)
                        THEN WsExit(ws_open) ELSE ws_open
    /\ midway' = IF raw.valid /\ raw.isList
                 THEN Midway(latest, raw.elems, _now_iso(clock)) ELSE {}
    /\ last_event' = FrameClass(raw)
    /\ last_trade' = IF raw.valid /\ raw.isList
                     THEN NoteTrades(last_trade, Processed(raw.elems))
                     ELSE last_trade
    /\ UNCHANGED <<ALPACA_KEY, ALPACA_SECRET, clock, auth_msg, sub_sent,
                   req, tasks>>

\* Where the loop goes when `async for` ends without raising: out of the
\* `async with`, out of the try, to the top of `while True`.
AfterNormalExit == "connect"

\* The connection closed with code 1000/1001 or no code: the websockets
\* iterator swallows ConnectionClosedOK and `async for` ends normally.
StreamClosedOK ==
    /\ sip_task = "next"
    /\ sip_task' = AfterNormalExit
    /\ ws_open' = WsExit(ws_open)
    /\ last_event' = "closed_ok"
    /\ UNCHANGED <<ALPACA_KEY, ALPACA_SECRET, latest, latest_lock, clock,
                   auth_msg, sub_sent, last_trade, req, tasks, midway>>

\* Read error, close frame with an error code, or keepalive ping timeout
\* (ping_interval=20, ping_timeout=20): the iterator raises
\* ConnectionClosedError.
StreamClosedError ==
    /\ sip_task = "next"
    /\ sip_task' = OuterExcept
    /\ ws_open' = WsExit(ws_open)
    /\ last_event' = "closed_error"
    /\ UNCHANGED <<ALPACA_KEY, ALPACA_SECRET, latest, latest_lock, clock,
                   auth_msg, sub_sent, last_trade, req, tasks, midway>>

\* Where the loop goes when asyncio.sleep(3) returns.
AfterSleep_Return == "returned"

AfterSleep == "connect"

\* asyncio.sleep(3) returned: back to the top of `while True`.
SleepDone ==
    /\ sip_task = "sleep"
    /\ sip_task' = AfterSleep
    /\ last_event' = "slept"
    /\ UNCHANGED <<ALPACA_KEY, ALPACA_SECRET, latest, latest_lock, clock,
                   auth_msg, sub_sent, last_trade, req, tasks, ws_open,
                   midway>>

LiveStates ==
    {"start", "connect", "send_auth", "recv_auth", "send_sub", "recv_sub",
     "next", "sleep"}

Cancel_Absorbed ==
    /\ sip_task \in LiveStates
    /\ sip_task' = OuterExcept
    /\ ws_open' = IF sip_task \in InWith THEN WsExit(ws_open) ELSE ws_open
    /\ last_event' = "cancelled"
    /\ UNCHANGED <<ALPACA_KEY, ALPACA_SECRET, latest, latest_lock, clock,
                   auth_msg, sub_sent, last_trade, req, tasks, midway>>

\* Shutdown cancels the task: CancelledError is raised at the await the
\* task is suspended at; it is a BaseException, so neither
\* `except Exception` catches it.
Cancel ==
    /\ sip_task \in LiveStates
    /\ sip_task' = "cancelled"
    /\ ws_open' = IF sip_task \in InWith THEN WsExit(ws_open) ELSE ws_open
    /\ last_event' = "cancelled"
    /\ UNCHANGED <<ALPACA_KEY, ALPACA_SECRET, latest, latest_lock, clock,
                   auth_msg, sub_sent, last_trade, req, tasks, midway>>

\* ------------------------------------------------------- HTTP handlers
Serving == sip_task \notin {"none", "cancelled"}

CanBegin == Serving /\ req.pc \in {"idle", "done"}

\* GET / and GET /health
root(ep) ==
    /\ CanBegin
    /\ req' = [IdleReq EXCEPT !.ep = ep, !.pc = "done", !.status = 200,
                              !.body = "ok", !.have_keys = have_keys]
    /\ UNCHANGED <<ALPACA_KEY, ALPACA_SECRET, loopVars, clock>>

GetLatestBegin_NoUpper(symbol) ==
    /\ CanBegin
    /\ req' = [IdleReq EXCEPT !.ep = "/latest", !.pc = "acquire",
                              !.query = symbol, !.sym = symbol]
    /\ UNCHANGED <<ALPACA_KEY, ALPACA_SECRET, loopVars, clock>>

\* GET /latest: the handler runs up to `async with latest_lock`.
GetLatestBegin(symbol) ==
    /\ CanBegin
    /\ req' = [IdleReq EXCEPT !.ep = "/latest", !.pc = "acquire",
                              !.query = symbol, !.sym = Upper(symbol)]
    /\ UNCHANGED <<ALPACA_KEY, ALPACA_SECRET, loopVars, clock>>

\* The lock is granted: out = latest.get(sym), release, return.  out is
\* None or a reference to the entry itself, not a copy.
GetLatestLocked ==
    /\ req.ep = "/latest" /\ req.pc = "acquire"
    /\ latest_lock = "free"
    /\ latest_lock' = AsyncWithExit(FALSE)
    /\ req' = [req EXCEPT !.pc = "returned",
                          !.out = IF req.sym \in DOMAIN latest
                                  THEN "ref" ELSE "None"]
    /\ UNCHANGED <<ALPACA_KEY, ALPACA_SECRET, sip_task, latest, clock,
                   auth_msg, sub_sent, last_event, last_trade, tasks,
                   ws_open, midway>>

\* The framework serialises the returned dict: the entry is read now, in
\* whatever store the event loop is at.
GetLatestRespond ==
    /\ req.ep = "/latest" /\ req.pc = "returned"
    /\ \E st \in {latest} \cup midway :
         req' = [req EXCEPT !.pc = "done", !.status = 200,
                            !.null = (req.out = "None"),
                            !.mid = (st # latest),
                            !.tick = IF req.out = "ref" /\ req.sym \in DOMAIN st
                                     THEN st[req.sym] ELSE EmptyDict]
    /\ UNCHANGED <<ALPACA_KEY, ALPACA_SECRET, loopVars, clock>>

\* What the vendor's REST endpoint can do with one call
VendorOutcomes ==
    { [kind |-> "json",    status |-> 200, text |-> "bars"],
      [kind |-> "notjson", status |-> 200, text |-> "<html>"],
      [kind |-> "status",  status |-> 404, text |-> "not found"],
      [kind |-> "status",  status |-> 429, text |-> "rate limited"],
      [kind |-> "error",   status |-> 0,   text |-> "timed out"] }

\* The path the request is sent to: always {base}/v2/stocks/{sym}/bars
BarsPath_Futures(sym) == IF sym \in {"ES"} THEN "futures" ELSE "stocks"

BarsPath(sym) == "stocks"

\* GET /bars up to `await client.get(...)`.
GetBarsBegin(symbol) ==
    /\ CanBegin
    /\ req' = IF ~have_keys
              THEN [IdleReq EXCEPT !.ep = "/bars", !.pc = "done",
                                   !.status = 500, !.body = "missing keys"]
              ELSE [IdleReq EXCEPT !.ep = "/bars", !.pc = "awaiting",
                                   !.query = symbol,
                                   !.sym = Upper(symbol), !.calls = 1,
                                   !.url = BarsPath(Upper(symbol))]
    /\ UNCHANGED <<ALPACA_KEY, ALPACA_SECRET, loopVars, clock>>

GetBarsFinish_Retry(o) ==
    /\ req.ep = "/bars" /\ req.pc = "awaiting"
    /\ req' = IF o.kind = "error"
              THEN [req EXCEPT !.calls = req.calls + 1]
              ELSE [req EXCEPT !.pc = "done", !.vkind = o.kind,
                               !.vstatus = o.status, !.vtext = o.text,
                               !.status = o.status, !.body = o.text]
    /\ UNCHANGED <<ALPACA_KEY, ALPACA_SECRET, loopVars, clock>>

\* client.get returned or raised; raise_for_status; r.json().
GetBarsFinish(o) ==
    /\ req.ep = "/bars" /\ req.pc = "awaiting"
    /\ req' = [req EXCEPT
                 !.pc = "done",
                 !.vkind = o.kind, !.vstatus = o.status, !.vtext = o.text,
                 !.status = IF o.kind = "json" THEN 200
                            ELSE IF o.kind = "status" THEN o.status
                            ELSE 500,
                 !.body = IF o.kind = "notjson" THEN "json decode error"
                          ELSE o.text]
    /\ UNCHANGED <<ALPACA_KEY, ALPACA_SECRET, loopVars, clock>>

\* ------------------------------------------------------- specification
\* One step of the background task
LoopStep ==
    \/ LoopStart
    \/ ConnectOK
    \/ ConnectFail
    \/ SendAuth
    \/ SendFail
    \/ \E raw \in HandshakeFrames : RecvAuth(raw)
    \/ SendSub
    \/ \E raw \in HandshakeFrames : RecvSub(raw)
    \/ RecvClosed
    \/ StreamClosedOK
    \/ StreamClosedError
    \/ SleepDone

\* One step of the GET /latest handler
LatestStep ==
    \/ \E symbol \in {"spy", "QQQ"} : GetLatestBegin(symbol)
    \/ GetLatestLocked
    \/ GetLatestRespond

\* One step of the other handlers
HttpStep ==
    \/ \E ep \in {"/", "/health"} : root(ep)
    \/ \E symbol \in {"spy", "es"} : GetBarsBegin(symbol)
    \/ \E o \in VendorOutcomes : GetBarsFinish(o)

\* The whole program
Next ==
    \/ Tick
    \/ _startup
    \/ LoopStep
    \/ \E raw \in Frames : StreamFrame(raw)
    \/ Cancel
    \/ LatestStep
    \/ HttpStep

Spec == Init /\ [][Next]_vars

\* The background task alone: no HTTP request arrives.
NextStream ==
    \/ Tick
    \/ _startup
    \/ LoopStep
    \/ \E raw \in Frames : StreamFrame(raw)
    \/ Cancel

StreamSpec == Init /\ [][NextStream]_vars

\* The background task and GET /latest requests.
NextRead ==
    \/ _startup
    \/ LoopStep
    \/ \E raw \in Frames : StreamFrame(raw)
    \/ Cancel
    \/ LatestStep

ReadSpec == Init /\ [][NextRead]_vars

\* The background task with the wall clock standing still.
NextBatch ==
    \/ _startup
    \/ LoopStep
    \/ \E raw \in Frames : StreamFrame(raw)
    \/ Cancel

BatchSpec == Init /\ [][NextBatch]_vars

\* Startup, the connection handshake and the HTTP handlers.
NextHttp ==
    \/ _startup
    \/ LoopStep
    \/ Cancel
    \/ LatestStep
    \/ HttpStep

HttpSpec == Init /\ [][NextHttp]_vars

\* The background task under the scheduling the runtime guarantees: a
\* created task is run, websockets.connect and ws.send complete or raise
\* (open and close timeouts, keepalive), asyncio.sleep returns.  Nothing
\* obliges the vendor to send a frame or to close the connection.
StreamFair ==
    /\ WF_vars(LoopStart)
    /\ WF_vars(ConnectOK \/ ConnectFail)
    /\ WF_vars(SendAuth \/ SendSub \/ SendFail)
    /\ WF_vars(SleepDone)

StreamLive == StreamSpec /\ StreamFair

\* ------------------------------------------------------------- claims

\* C1: the Tick store `latest` never holds an entry for a symbol outside
\* SymbolSet, whatever frames arrive.
C1_StoreWithinSymbolSet == DOMAIN latest \subseteq SymbolSet

\* C2 (as stated): after the trade messages processed so far, the entry of
\* a subscribed symbol shows the last message's price, source timestamp and
\* size.
C2_LastTradeWithSize ==
    \A sym \in (DOMAIN last_trade) \cap SymbolSet :
        /\ sym \in DOMAIN latest
        /\ "last_trade_price" \in DOMAIN latest[sym]
        /\ latest[sym]["last_trade_price"] = last_trade[sym].p
        /\ "last_trade_time" \in DOMAIN latest[sym]
        /\ latest[sym]["last_trade_time"] = last_trade[sym].t
        /\ \E f \in DOMAIN latest[sym] : latest[sym][f] = last_trade[sym].s

\* C2 (amended): after the trade messages processed so far, the entry of a
\* subscribed symbol shows exactly the last message's price and source
\* timestamp; no earlier trade's value survives.
C2_LastTradeWins ==
    \A sym \in (DOMAIN last_trade) \cap SymbolSet :
        /\ sym \in DOMAIN latest
        /\ "last_trade_price" \in DOMAIN latest[sym]
        /\ latest[sym]["last_trade_price"] = last_trade[sym].p
        /\ "last_trade_time" \in DOMAIN latest[sym]
        /\ latest[sym]["last_trade_time"] = last_trade[sym].t

\* A later trade (price 681.00, no timestamp) has replaced an earlier one.
C2_Witness ==
    /\ "SPY" \in DOMAIN last_trade
    /\ last_trade["SPY"].p = "681.00"
    /\ latest["SPY"]["last_trade_time"] = None
    /\ latest["SPY"]["updated_at"] = "T1"
    /\ "bid_price" \in DOMAIN latest["SPY"]

\* C3: whenever the connection ends, for any cause, the loop is in Backoff
\* (asleep) before it connects again.
C3_CloseEntersBackoff ==
    last_event \in {"closed_ok", "closed_error", "recv_closed"}
        => sip_task = "sleep"

\* C4: the subscribe message is sent only after an affirmative auth
\* acknowledgment, and a rejection sends the loop to Backoff.
C4_SubscribeOnlyAfterAck ==
    /\ sub_sent => auth_msg = "ack"
    /\ (last_event = "auth_reply" /\ auth_msg = "reject") => sip_task = "sleep"

\* C5 (as stated): with the key or the secret absent, no HTTP handler ever
\* runs.
C5_NoRequestWithoutKeys == ~have_keys => req.ep = "none"

\* C5 (amended): with the key or the secret absent the process still
\* serves HTTP, but the stream loop returns before its first connection
\* attempt and the Tick store stays empty: / and /health report have_keys
\* false, /latest answers null and /bars answers 500 with no outbound call.
C5_NoStreamWithoutKeys ==
    ~have_keys =>
        /\ sip_task \in {"none", "start", "returned", "cancelled"}
        /\ latest = EmptyDict
        /\ (req.ep \in {"/", "/health"} => ~req.have_keys)
        /\ (req.ep = "/latest" /\ req.pc = "done" => req.null)
        /\ (req.ep = "/bars" => req.pc = "done" /\ req.status = 500
                                 /\ req.calls = 0)

\* Without credentials the loop has returned and /bars has answered 500.
C5_Witness ==
    /\ ~have_keys
    /\ sip_task = "returned"
    /\ req.ep = "/bars" /\ req.status = 500

\* C6: at every point where the loop is suspended (connect, send, recv,
\* next frame, sleep) or has ended, latest_lock is free, so a reader waiting
\* for the lock can take it without any step of the loop or the network.
C6_ReaderNeverBlocked ==
    /\ latest_lock = "free"
    /\ (req.ep = "/latest" /\ req.pc = "acquire") => ENABLED GetLatestLocked

\* A reader is waiting for the lock right after the update block raised.
C6_Witness ==
    /\ req.ep = "/latest" /\ req.pc = "acquire"
    /\ last_event = "non_object"
    /\ "SPY" \in DOMAIN latest

\* A Tick as whole messages leave it: the trade fields are those of one
\* trade message, the quote fields those of one quote message.
WholeTick(sym, tick) ==
    LET D == DOMAIN tick
        Named(T) == {e \in Elems : e.obj /\ e.T = T /\ IsStr(e.S)
                                   /\ Upper(e.S) = sym}
    IN /\ "updated_at" \in D
       /\ "last_trade_price" \in D <=> "last_trade_time" \in D
       /\ "last_trade_price" \in D =>
            \E e \in Named("t") : /\ tick["last_trade_price"] = e.p
                                  /\ tick["last_trade_time"] = e.t
       /\ "bid_price" \in D <=> "ask_price" \in D
       /\ "bid_price" \in D <=> "quote_time" \in D
       /\ "bid_price" \in D =>
            \E e \in Named("q") : /\ tick["bid_price"] = e.bp
                                  /\ tick["ask_price"] = e.ap
                                  /\ tick["quote_time"] = e.t
       /\ "last_trade_price" \in D \/ "bid_price" \in D

\* C7: what a GET /latest caller is sent is null or a Tick as whole
\* messages left it, never a partly written one, although the entry is read
\* after the lock was released.
C7_ConsistentSnapshot ==
    (req.ep = "/latest" /\ req.pc = "done" /\ ~req.null)
        => WholeTick(req.sym, req.tick)

\* A reader was sent a Tick holding both a trade and a quote, and the
\* writer has since changed the entry.
C7_Witness ==
    /\ req.ep = "/latest" /\ req.pc = "done" /\ ~req.null
    /\ "last_trade_price" \in DOMAIN req.tick
    /\ "bid_price" \in DOMAIN req.tick
    /\ req.tick # latest[req.sym]

\* C8: after a malformed or unrecognized frame the loop is still awaiting
\* the next frame of the same connection, and a GET /latest caller can
\* take the lock and is never answered with an error.
C8_MalformedKeepsStreaming ==
    /\ last_event \in MalformedClasses =>
          /\ sip_task = "next"
          /\ latest_lock = "free"
    /\ req.ep = "/latest" => req.status \in {0, 200}

\* The loop has just dropped a frame with a non-object element while a
\* reader is being served.
C8_Witness ==
    /\ last_event = "non_object"
    /\ sip_task = "next"
    /\ req.ep = "/latest" /\ req.pc = "returned"

\* C9: with credentials the loop never returns, and after every failed
\* connect, failed send or connection end it is connecting again (or has
\* been cancelled).
C9_AlwaysReconnects ==
    /\ [](have_keys => sip_task # "returned")
    /\ (last_event \in {"connect_failed", "send_failed", "recv_closed",
                        "closed_ok", "closed_error"})
          ~> (sip_task \in {"connect", "cancelled"})

\* The loop is connecting again after a backoff, with data already cached.
C9_Witness ==
    /\ last_event = "slept"
    /\ sip_task = "connect"
    /\ latest # EmptyDict

\* C10: the loop does not wait for the auth or the subscribe answer
\* forever.
C10_HandshakeTimesOut ==
    /\ (sip_task = "recv_auth") ~> (sip_task # "recv_auth")
    /\ (sip_task = "recv_sub") ~> (sip_task # "recv_sub")

\* C11: one sip_stream_loop task is created, _startup returns before the
\* task has run (so before any connection), and at most one websocket
\* connection is open: exactly one while the task is inside `async with`.
C11_OneLoopOneConnection ==
    /\ tasks <= 1
    /\ tasks = 1 <=> sip_task # "none"
    /\ last_event = "created" => sip_task = "start" /\ ws_open = 0
    /\ ws_open = (IF sip_task \in InWith THEN 1 ELSE 0)

\* The loop holds its one connection again after an earlier one, on which
\* it had cached data, was closed.
C11_Witness ==
    /\ tasks = 1
    /\ ws_open = 1
    /\ last_event = "connected"
    /\ latest # EmptyDict

\* C12 (as stated): GET /latest for a symbol with no entry answers 404.
C12_MissIs404 ==
    (req.ep = "/latest" /\ req.pc = "done" /\ req.null) => req.status = 404

\* C12 (amended): GET /latest always answers 200 and names the upper-cased
\* symbol; the Tick is null exactly when the symbol had no entry when the
\* handler looked it up, and once a trade for the symbol has been applied
\* the answer carries the last applied trade's price.
C12_NullThenPrice ==
    /\ []((req.ep = "/latest" /\ req.pc = "done")
            => req.status = 200 /\ req.sym = Upper(req.query))
    /\ [][(req.ep = "/latest" /\ req.pc = "acquire" /\ req'.pc = "returned")
            => (req'.out = "ref" <=> Upper(req.query) \in DOMAIN latest)]_vars
    /\ [][(req.ep = "/latest" /\ req.pc = "returned" /\ req'.pc = "done")
            => /\ req'.null <=> req.out = "None"
               /\ (req.out = "ref" /\ Upper(req.query) \in DOMAIN last_trade)
                    => /\ "last_trade_price" \in DOMAIN req'.tick
                       /\ req'.tick["last_trade_price"]
                            = last_trade[Upper(req.query)].p]_vars

\* GET /latest?symbol=spy was answered with the price of the applied trade.
C12_Witness ==
    /\ req.ep = "/latest" /\ req.pc = "done" /\ ~req.null
    /\ req.query = "spy"
    /\ "last_trade_price" \in DOMAIN req.tick
    /\ req.tick["last_trade_price"] = "681.00"

C14_FuturesRouted ==
    (req.ep = "/bars" /\ req.calls = 1)
        => req.url = (IF req.sym = "ES" THEN "futures" ELSE "stocks")

\* C14 (amended): GET /bars sends every symbol, upper-cased, to the stocks
\* path, futures roots such as ES included.
C14_AlwaysStocks ==
    (req.ep = "/bars" /\ req.calls = 1)
        => req.url = "stocks" /\ req.sym = Upper(req.query)

\* GET /bars?symbol=es was sent to the stocks path as ES.
C14_Witness ==
    /\ req.ep = "/bars" /\ req.calls = 1
    /\ req.query = "es" /\ req.sym = "ES"
    /\ req.url = "stocks"

\* The Tick fields a message of type T may write
Touched(T) ==
    IF T = "t" THEN {"last_trade_price", "last_trade_time", "updated_at"}
    ELSE IF T = "q" THEN {"bid_price", "ask_price", "quote_time",
                          "updated_at"}
    ELSE {}

\* C15: in every store the loop can reach, applying any one message
\* removes no entry and no field, changes no field but those of its own
\* kind and the update time, and a trade or quote that names a symbol sets
\* that symbol's update time.
C15_KindsIndependent ==
    \A e \in Elems :
        LET now == _now_iso(clock)
            r == ProcessMsg(latest, e, now).store
        IN /\ DOMAIN latest \subseteq DOMAIN r
           /\ \A sym \in DOMAIN r :
                LET old == IF sym \in DOMAIN latest THEN latest[sym]
                           ELSE EmptyDict
                IN /\ DOMAIN old \subseteq DOMAIN r[sym]
                   /\ \A f \in DOMAIN r[sym] :
                        (f \notin DOMAIN old \/ r[sym][f] # old[f])
                            => f \in Touched(e.T)
           /\ (e.obj /\ e.T \in {"t", "q"} /\ Truthy(e.S) /\ IsStr(e.S))
                => /\ Upper(e.S) \in DOMAIN r
                   /\ r[Upper(e.S)]["updated_at"] = now

\* SPY holds the fields of a trade and of a quote, the later of the two
\* applied after the clock moved.
C15_Witness ==
    /\ "SPY" \in DOMAIN latest
    /\ "last_trade_price" \in DOMAIN latest["SPY"]
    /\ "bid_price" \in DOMAIN latest["SPY"]
    /\ latest["SPY"]["updated_at"] = "T1"
    /\ last_event = "data"

\* C16: no step removes an entry or a field of the Tick store, and only a
\* step of `async for` that stays in `async for` changes it: connecting,
\* the auth and subscribe exchange, a disconnect and the backoff sleep
\* leave the whole store as it is.
C16_EntriesNeverRemoved ==
    [][/\ DOMAIN latest \subseteq DOMAIN latest'
       /\ \A sym \in DOMAIN latest :
             DOMAIN latest[sym] \subseteq DOMAIN latest'[sym]
       /\ (sip_task # "next" \/ sip_task' # "next") => latest' = latest]_vars

\* The loop is authenticating on a new connection with the entries of the
\* earlier one still in the store.
C16_Witness ==
    /\ sip_task = "recv_auth"
    /\ last_event = "auth_sent"
    /\ "SPY" \in DOMAIN latest /\ "QQQ" \in DOMAIN latest

\* C17: the task can be cancelled wherever it is suspended; the
\* cancellation ends it there with its connection closed, and once
\* cancelled it takes no further step.
C17_CancelIsFinal ==
    /\ [](sip_task \in LiveStates => ENABLED Cancel)
    /\ [](last_event = "cancelled" => sip_task = "cancelled" /\ ws_open = 0)
    /\ [][sip_task = "cancelled"
             => sip_task' = "cancelled" /\ ws_open' = 0
                /\ last_event' = "cancelled"]_vars

\* The task was cancelled after it had subscribed and cached data.
C17_Witness ==
    /\ sip_task = "cancelled"
    /\ sub_sent
    /\ latest # EmptyDict

\* C18: the loop is never suspended between two messages of a batch, and
\* the lock it took for the batch is released by the time anything else
\* runs, so what GET /latest reads is the store before a batch or the
\* store after its processed part, never one in between.
C18_BatchAtomic ==
    /\ midway = {}
    /\ latest_lock = "free"
    /\ (req.ep = "/latest" /\ req.pc = "done") => ~req.mid

\* A frame of several messages was applied and a request read the entry
\* as the whole frame left it.
C18_Witness ==
    /\ last_event = "batch"
    /\ req.ep = "/latest" /\ req.pc = "done" /\ req.out = "ref"
    /\ "SPY" \in DOMAIN latest /\ "QQQ" \in DOMAIN latest
    /\ req.tick = latest["SPY"]
    /\ "bid_price" \in DOMAIN req.tick
    /\ "last_trade_price" \in DOMAIN req.tick

\* The store after every element of es has run on it in order.
RECURSIVE ApplyAll(_, _, _)
ApplyAll(store, es, now) ==
    IF es = <<>> THEN store
    ELSE ApplyAll(ProcessMsg(store, Head(es), now).store, Tail(es), now)

\* The position of the first element of es that raises when the ones
\* before it have been applied to store; Len(es) + 1 if none does.
FirstRaise(store, es, now) ==
    LET bad == {i \in 1..Len(es) :
                  ProcessMsg(ApplyAll(store, SubSeq(es, 1, i - 1), now),
                             es[i], now).raised}
    IN IF bad = {} THEN Len(es) + 1
       ELSE CHOOSE i \in bad : \A j \in bad : i <= j

\* C19: an element that raises changes nothing itself; a frame whose
\* element k raises leaves the store as the elements before k made it,
\* applies nothing of element k or of those after it, and the loop goes
\* on to the next frame on the same connection.
C19_PrefixOnly ==
    LET now == _now_iso(clock)
    IN /\ \A e \in Elems :
            ProcessMsg(latest, e, now).raised
                => ProcessMsg(latest, e, now).store = latest
       /\ \A raw \in DataFrames :
            LET h == HandleRaw(latest, "free", raw, now)
                k == FirstRaise(latest, raw.elems, now)
            IN /\ h.store = ApplyAll(latest, SubSeq(raw.elems, 1, k - 1), now)
               /\ h.kind = (IF k <= Len(raw.elems) THEN "attr" ELSE "")
               /\ h.lock = "free"
               /\ InnerExcept(h.kind) \/ h.kind = ""
       /\ last_event \in {"non_object", "bad_symbol"}
            => sip_task = "next" /\ ws_open = 1 /\ latest_lock = "free"

\* A frame with an element that is not an object has been read; the store
\* holds what came before it and the loop is waiting for the next frame.
C19_Witness ==
    /\ last_event = "non_object"
    /\ sip_task = "next"
    /\ "SPY" \in DOMAIN latest
    /\ "QQQ" \notin DOMAIN latest

\* C20: the two frames read by ws.recv() after the auth and the subscribe
\* message are only printed: while the loop waits for either of them the
\* store does not change, and every change of the store is made on a
\* connection on which the auth reply has been read and the subscribe
\* message sent, by a frame of `async for`.
C20_HandshakeFramesNotApplied ==
    [][/\ sip_task \in {"send_auth", "recv_auth", "send_sub", "recv_sub"}
            => latest' = latest /\ last_trade' = last_trade
       /\ latest' # latest
            => sip_task = "next" /\ sub_sent /\ auth_msg # "none"]_vars

\* Both replies have been read, the first was not an answer to the auth
\* message (a trade, a subscription ack or text that is not JSON), and the
\* store is still empty.
C20_Witness ==
    /\ sip_task = "next"
    /\ last_event = "sub_reply"
    /\ auth_msg = "other"
    /\ sub_sent
    /\ latest = EmptyDict

====
